---- MODULE Spec2Model ----
(***************************************************************************)
(* Model of the upload transport of prism-fe:                              *)
(*   - useResumableUpload (hook, single stream, resumable),                *)
(*   - useDualUpload      (hook, two streams),                             *)
(*   - UploadManager      (singleton, single stream).                      *)
(* Every await of the source is a suspension point; what runs between two  *)
(* suspension points is one atomic action.  The backend is the environment:*)
(* it answers every request with success or failure, and keeps, per        *)
(* session, the count of bytes it has absorbed.                            *)
(***************************************************************************)
EXTENDS Integers, Sequences, FiniteSets, TLC

(* ---------------------------------------------------------------------- *)
(* Bounds                                                                  *)
(* ---------------------------------------------------------------------- *)
BlobSize == 3
ChunkSize == 2
MaxSessions == 2
NumericToken == 2
WebcamSize == 2
CallCap == 2
MaxPayload == 6
MaxChunkSize == 4

(* default of the maxRetries parameter of uploadScreenChunk/uploadWebcamChunk *)
DualMaxRetries == 3

(* ---------------------------------------------------------------------- *)
(* Values                                                                  *)
(* ---------------------------------------------------------------------- *)
Null == -1
NaN == -2

Min(a, b) == IF a < b THEN a ELSE b
Max(a, b) == IF a > b THEN a ELSE b

Runs == {1, 2}

Tokens == {"jwt", "num"}

(* Number(accessToken): what `attempt < maxRetries` sees when the string   *)
(* accessToken is passed in the maxRetries position.                       *)
ToNumber(tok) == IF tok = "num" THEN NumericToken ELSE NaN

(* attempt < maxRetries, with JavaScript's NaN comparing false *)
LoopGuard(attempt, maxRetries) == maxRetries # NaN /\ attempt < maxRetries

(* attempt === maxRetries - 1 *)
IsLastAttempt(attempt, maxRetries) == maxRetries # NaN /\ attempt = maxRetries - 1

(* Math.pow(2, attempt) * 1000: the wait, in ms, after failed attempt `attempt` *)
BackoffDelay(attempt) == (2 ^ attempt) * 1000

(* ---------------------------------------------------------------------- *)
(* Pure functions                                                          *)
(* ---------------------------------------------------------------------- *)
SliceFrom_padsLast(start, size, chunkSize) ==
  [k \in 1..((size - start + chunkSize - 1) \div chunkSize) |->
     [start |-> start + (k - 1) * chunkSize, end |-> start + k * chunkSize]]

RECURSIVE SliceFrom(_, _, _)
SliceFrom(start, size, chunkSize) ==
  IF start < size
    THEN LET end == Min(start + chunkSize, size)
         IN  <<[start |-> start, end |-> end]>> \o SliceFrom(end, size, chunkSize)
    ELSE <<>>

sliceBlobIntoChunks_dropsTail(size, chunkSize) ==
  SliceFrom(0, size - (size % chunkSize), chunkSize)

sliceBlobIntoChunks(size, chunkSize) == SliceFrom(0, size, chunkSize)

calculateStartingChunkIndex_fromZero(uploadedBytes, chunkSize) == 0

calculateStartingChunkIndex_roundsUp(uploadedBytes, chunkSize) ==
  (uploadedBytes + chunkSize - 1) \div chunkSize

calculateStartingChunkIndex(uploadedBytes, chunkSize) ==
  IF uploadedBytes = 0 THEN 0 ELSE uploadedBytes \div chunkSize

(* byte range announced by uploadChunk for chunk chunkIndex: [start, end) *)
RangeStart(chunkIndex, chunkSize) == chunkIndex * chunkSize
RangeEnd(chunkIndex, chunkSize, totalSize) ==
  Min(RangeStart(chunkIndex, chunkSize) + chunkSize, totalSize)

(* ---------------------------------------------------------------------- *)
(* Backend (environment)                                                   *)
(* ---------------------------------------------------------------------- *)
(* Byte counts the backend may report after a write of [start, end) to a   *)
(* stream that holds `acked` bytes: the whole range, or a proper prefix of *)
(* it; a range that starts beyond what it holds is not absorbed.           *)
BackendAccept(acked, start, end) ==
  IF start > acked
    THEN {acked}
    ELSE {Max(acked, x) : x \in (start + 1)..end}

VARIABLES
  state, progress, error, recordingId, playbackUrl,  \* useResumableUpload
  stored,                                            \* sessionStorage["activeRecordingId"]
  run,                                               \* upload()/resume() calls in progress
  srvAcked, srvCount,                                \* backend: bytes held per session, sessions issued
  dState, dProgress, dError, dRecordingId, dPlaybackUrl,  \* useDualUpload
  dMain,                                             \* position of the upload() call
  walk,                                              \* the two uploadStreamChunks walks
  dsrvAcked, dsrvCount,                              \* backend: bytes held per stream, dual sessions issued
  mId, mStatus, mUploaded, mError, mAborted,         \* UploadManager: the entry of this.uploads
  mrun,                                              \* startUpload()/resumeUpload() calls in progress
  fn,                                                \* arguments and results of the pure helpers
  sState, sProgress, sError, sRecordingId, sPlaybackUrl,  \* useSimpleUpload
  srun,                                              \* its upload() call in progress
  ssrvCount                                          \* backend: single-PUT sessions issued

hookVars == <<state, progress, error, recordingId, playbackUrl, stored, run>>
srvVars == <<srvAcked, srvCount>>
dualVars == <<dState, dProgress, dError, dRecordingId, dPlaybackUrl, dMain, walk,
              dsrvAcked, dsrvCount>>
mgrVars == <<mId, mStatus, mUploaded, mError, mAborted, mrun>>
simpleVars == <<sState, sProgress, sError, sRecordingId, sPlaybackUrl, srun, ssrvCount>>

(* what an action of one component leaves alone *)
notHook == <<dualVars, mgrVars, fn, simpleVars>>
notDual == <<hookVars, srvVars, mgrVars, fn, simpleVars>>
notMgr == <<hookVars, dualVars, fn, simpleVars>>
notFn == <<hookVars, srvVars, dualVars, mgrVars, simpleVars>>
notSimple == <<hookVars, srvVars, dualVars, mgrVars, fn>>

(* progress === null *)
NoProgress == [uploadedBytes |-> Null, totalBytes |-> Null,
               percentage |-> [num |-> Null, den |-> Null]]

(* (uploadedBytes / totalSize) * 100, kept exact as a fraction *)
Percent(uploadedBytes, totalSize) == [num |-> uploadedBytes * 100, den |-> totalSize]

ProgressData_assumesAll(uploadedBytes, totalSize) ==
  [uploadedBytes |-> totalSize, totalBytes |-> totalSize,
   percentage |-> Percent(totalSize, totalSize)]

(* progressData of uploadChunks *)
ProgressData(uploadedBytes, totalSize) ==
  [uploadedBytes |-> uploadedBytes, totalBytes |-> totalSize,
   percentage |-> Percent(uploadedBytes, totalSize)]

IdleRun == [pc |-> "idle", kind |-> "none", rid |-> Null, i |-> 0,
            attempt |-> 0, maxRetries |-> 0, writes |-> 0, waits |-> <<>>,
            inits |-> 0]

Active(r) == run[r].pc \notin {"idle", "done", "failed"}
Free(r) == ~Active(r)
Quiescent == \A r \in Runs : Free(r)
(* the slot a new call takes: the lowest free one *)
NextSlot(r) == Free(r) /\ \A q \in Runs : q < r => Active(q)

NumChunks == Len(sliceBlobIntoChunks(BlobSize, ChunkSize))

BeginWalk_skipsOne(rec, from) ==
  IF from + 1 < NumChunks
    THEN IF LoopGuard(0, rec.maxRetries)
           THEN [rec EXCEPT !.pc = "chunk", !.i = from + 1, !.attempt = 0,
                            !.writes = rec.writes + 1, !.waits = <<>>]
           ELSE [rec EXCEPT !.pc = "failed", !.i = from + 1, !.attempt = 0]
    ELSE [rec EXCEPT !.pc = "complete", !.i = from + 1]

BeginWalk_sameChunk(rec, from) ==
  IF rec.i < NumChunks
    THEN IF LoopGuard(0, rec.maxRetries)
           THEN [rec EXCEPT !.pc = "chunk", !.attempt = 0, !.waits = <<>>]
           ELSE [rec EXCEPT !.pc = "failed", !.attempt = 0]
    ELSE [rec EXCEPT !.pc = "complete"]

(* uploadChunks(blob, recordingId, chunkSize, from, accessToken) up to its *)
(* first suspension point: the run record it leaves.                       *)
BeginWalk(rec, from) ==
  IF from < NumChunks
    THEN IF LoopGuard(0, rec.maxRetries)
           THEN [rec EXCEPT !.pc = "chunk", !.i = from, !.attempt = 0,
                            !.writes = rec.writes + 1, !.waits = <<>>]
           ELSE [rec EXCEPT !.pc = "failed", !.i = from, !.attempt = 0]
    ELSE [rec EXCEPT !.pc = "complete", !.i = from]

(* lifecycle state and error message the hook shows once BeginWalk returned: *)
(* "uploading" is set before uploadChunks is called, and a walk that goes  *)
(* on to its next chunk sets no state                                      *)
StateAfter(rec) ==
  CASE rec.pc = "chunk" -> "uploading"
    [] rec.pc = "failed" -> "error"
    [] OTHER -> "completing"
ErrorAfter(rec, old) == IF rec.pc = "failed" THEN "Chunk upload failed" ELSE old

(* ---------------------------------------------------------------------- *)
(* useResumableUpload                                                      *)
(* ---------------------------------------------------------------------- *)
saveRecordingId_skipped(id) == stored' = stored

saveRecordingId(id) == stored' = id

clearRecordingId == stored' = Null

InitialState_alwaysIdle(found) == "idle"

(* useState<UploadState>(() => recordingId ? "paused" : "idle") *)
InitialState(found) == IF found # Null THEN "paused" ELSE "idle"

(* the useState initialisers: recordingId from sessionStorage, "paused" if *)
(* one was found                                                           *)
HookInit ==
  /\ recordingId = stored
  /\ state = InitialState(stored)
  /\ progress = NoProgress
  /\ error = "none"
  /\ playbackUrl = "none"
  /\ run = [r \in Runs |-> IdleRun]

(* the component is mounted again (page refresh): every call in progress   *)
(* is gone, the hook's state is built from sessionStorage                  *)
Remount ==
  /\ UNCHANGED notHook
  /\ recordingId' = stored
  /\ state' = InitialState(stored)
  /\ progress' = NoProgress
  /\ error' = "none"
  /\ playbackUrl' = "none"
  /\ run' = [r \in Runs |-> IdleRun]
  /\ UNCHANGED <<stored, srvVars>>

upload(r) ==
  /\ UNCHANGED notHook
  /\ NextSlot(r)
  /\ error' = "none"
  /\ progress' = NoProgress
  /\ recordingId' = Null
  /\ playbackUrl' = "none"
  /\ run' = [run EXCEPT ![r] = [IdleRun EXCEPT !.pc = "token", !.kind = "upload"]]
  /\ UNCHANGED <<state, stored, srvVars>>

resume(r) ==
  /\ UNCHANGED notHook
  /\ NextSlot(r)
  /\ recordingId # Null
  /\ error' = "none"
  /\ recordingId' = recordingId
  /\ run' = [run EXCEPT ![r] = [IdleRun EXCEPT !.pc = "token", !.kind = "resume",
                                               !.rid = recordingId]]
  /\ UNCHANGED <<state, progress, playbackUrl, stored, srvVars>>

(* getAccessToken() resolved: the request of step 1 is sent *)
TokenOk(r) ==
  /\ UNCHANGED notHook
  /\ run[r].pc = "token"
  /\ \E tok \in Tokens :
       run' = [run EXCEPT ![r].pc = IF run[r].kind = "upload" THEN "init" ELSE "status",
                          ![r].inits = IF run[r].kind = "upload" THEN 1 ELSE 0,
                          ![r].maxRetries = ToNumber(tok)]
  /\ state' = "initializing"
  /\ UNCHANGED <<progress, error, recordingId, playbackUrl, stored, srvVars>>

Fail_clearsIdentity(r, msg) ==
  /\ UNCHANGED notHook
  /\ run' = [run EXCEPT ![r].pc = "failed"]
  /\ error' = msg
  /\ state' = "error"
  /\ stored' = Null
  /\ UNCHANGED <<progress, recordingId, playbackUrl, srvVars>>

(* catch (err): setError, setState("error") *)
Fail(r, msg) ==
  /\ UNCHANGED notHook
  /\ run' = [run EXCEPT ![r].pc = "failed"]
  /\ error' = msg
  /\ state' = "error"
  /\ UNCHANGED <<progress, recordingId, playbackUrl, stored, srvVars>>

TokenFail(r) ==
  /\ run[r].pc = "token"
  /\ Fail(r, "auth")

InitOk(r) ==
  /\ UNCHANGED notHook
  /\ run[r].pc = "init"
  /\ srvCount < MaxSessions
  /\ LET id == srvCount + 1
         rec == BeginWalk([run[r] EXCEPT !.rid = id], 0)
     IN  /\ srvCount' = id
         /\ srvAcked' = [srvAcked EXCEPT ![id] = 0]
         /\ recordingId' = id
         /\ saveRecordingId(id)
         /\ run' = [run EXCEPT ![r] = rec]
         /\ state' = StateAfter(rec)
         /\ error' = ErrorAfter(rec, error)
  /\ UNCHANGED <<progress, playbackUrl>>

InitFail_retriesOnce(r) ==
  /\ run[r].pc = "init"
  /\ IF run[r].inits < 2
       THEN /\ run' = [run EXCEPT ![r].inits = run[r].inits + 1]
            /\ UNCHANGED <<state, progress, error, recordingId, playbackUrl,
                           stored, srvVars, notHook>>
       ELSE Fail(r, "init")

(* initResumableUpload rejected: the catch of upload() *)
InitFail(r) ==
  /\ run[r].pc = "init"
  /\ Fail(r, "init")

StatusOk(r) ==
  /\ UNCHANGED notHook
  /\ run[r].pc = "status"
  /\ LET uploadedBytes == srvAcked[run[r].rid]
         fileSize == BlobSize
     IN  IF uploadedBytes >= fileSize
           THEN /\ state' = "completed"
                /\ progress' = [uploadedBytes |-> fileSize, totalBytes |-> fileSize,
                                 percentage |-> [num |-> 100, den |-> 1]]
                /\ run' = [run EXCEPT ![r].pc = "completeEarly"]
                /\ UNCHANGED error
           ELSE LET rec == BeginWalk(run[r],
                             calculateStartingChunkIndex(uploadedBytes, ChunkSize))
                IN  /\ run' = [run EXCEPT ![r] = rec]
                    /\ state' = StateAfter(rec)
                    /\ error' = ErrorAfter(rec, error)
                    /\ UNCHANGED progress
  /\ UNCHANGED <<recordingId, playbackUrl, stored, srvVars>>

StatusFail(r) ==
  /\ run[r].pc = "status"
  /\ Fail(r, "status")

(* the chunk write of run r is answered 200 { uploadedBytes, done } *)
ChunkOk(r) ==
  /\ UNCHANGED notHook
  /\ run[r].pc = "chunk"
  /\ LET id == run[r].rid
         start == RangeStart(run[r].i, ChunkSize)
         end == RangeEnd(run[r].i, ChunkSize, BlobSize)
     IN  \E uploadedBytes \in BackendAccept(srvAcked[id], start, end) :
           LET done == uploadedBytes >= BlobSize
               rec == IF done
                        THEN [run[r] EXCEPT !.pc = "complete"]
                        ELSE BeginWalk(run[r], run[r].i + 1)
           IN  /\ srvAcked' = [srvAcked EXCEPT ![id] = uploadedBytes]
               /\ progress' = ProgressData(uploadedBytes, BlobSize)
               /\ run' = [run EXCEPT ![r] = rec]
               /\ state' = IF rec.pc = "chunk" THEN state ELSE StateAfter(rec)
               /\ error' = ErrorAfter(rec, error)
  /\ UNCHANGED <<recordingId, playbackUrl, stored, srvCount>>

(* the chunk write failed (network error or non-2xx) *)
ChunkFail(r) ==
  /\ run[r].pc = "chunk"
  /\ IF IsLastAttempt(run[r].attempt, run[r].maxRetries)
       THEN Fail(r, "Chunk upload failed: status")
       ELSE /\ run' = [run EXCEPT ![r].pc = "backoff",
                                  ![r].waits = Append(run[r].waits,
                                                      BackoffDelay(run[r].attempt))]
            /\ UNCHANGED <<state, progress, error, recordingId, playbackUrl,
                           stored, srvVars, notHook>>

(* the backoff timer fired: next attempt of the same chunk *)
BackoffDone(r) ==
  /\ UNCHANGED notHook
  /\ run[r].pc = "backoff"
  /\ run' = [run EXCEPT ![r].pc = "chunk", ![r].attempt = run[r].attempt + 1,
                        ![r].writes = run[r].writes + 1]
  /\ UNCHANGED <<state, progress, error, recordingId, playbackUrl, stored, srvVars>>

PlaybackUrls == {"none", "url"}

CompleteOk(r) ==
  /\ UNCHANGED notHook
  /\ run[r].pc \in {"complete", "completeEarly"}
  /\ \E url \in PlaybackUrls :
       playbackUrl' = IF url # "none" THEN url ELSE playbackUrl
  /\ run' = [run EXCEPT ![r].pc = "done"]
  /\ IF run[r].pc = "complete"
       THEN state' = "completed" /\ clearRecordingId
       ELSE UNCHANGED <<state, stored>>
  /\ UNCHANGED <<progress, error, recordingId, srvVars>>

CompleteFail_clearsStorage(r) ==
  /\ run[r].pc \in {"complete", "completeEarly"}
  /\ Fail_clearsIdentity(r, "complete")

CompleteFail(r) ==
  /\ run[r].pc \in {"complete", "completeEarly"}
  /\ Fail(r, "complete")

reset_keepsStorage ==
  /\ UNCHANGED notHook
  /\ state' = "idle"
  /\ progress' = NoProgress
  /\ error' = "none"
  /\ recordingId' = Null
  /\ playbackUrl' = "none"
  /\ UNCHANGED <<stored, run, srvVars>>

reset ==
  /\ UNCHANGED notHook
  /\ state' = "idle"
  /\ progress' = NoProgress
  /\ error' = "none"
  /\ recordingId' = Null
  /\ playbackUrl' = "none"
  /\ clearRecordingId
  /\ UNCHANGED <<run, srvVars>>

(* The tab starts either with nothing in sessionStorage, or with the       *)
(* identity of a session of an earlier page life, of which the backend     *)
(* holds any number of bytes.                                              *)
SrvInit ==
  \/ /\ stored = Null
     /\ srvCount = 0
     /\ srvAcked = [id \in 1..MaxSessions |-> 0]
  \/ /\ stored = 1
     /\ srvCount = 1
     /\ \E held \in 0..BlobSize :
          srvAcked = [id \in 1..MaxSessions |-> IF id = 1 THEN held ELSE 0]

(* ---------------------------------------------------------------------- *)
(* useDualUpload                                                           *)
(* ---------------------------------------------------------------------- *)
Streams == {"screen", "webcam"}

StreamSize(s) == IF s = "screen" THEN BlobSize ELSE WebcamSize

StreamChunks(s) == Len(sliceBlobIntoChunks(StreamSize(s), ChunkSize))

NullProgress == [s \in Streams |-> Null]

IdleWalk == [pc |-> "idle", i |-> 0, attempt |-> 0, waits |-> <<>>,
             lastError |-> "none"]

(* why a chunk write failed: no answer, a 5xx, or a 401 for a missing or   *)
(* expired bearer token; all of them reach the same catch block            *)
FailureCauses == {"network 5xx", "401"}

WalkActive(s) == walk[s].pc \in {"chunk", "backoff"}

DualInit ==
  /\ dState = "idle"
  /\ dProgress = NullProgress
  /\ dError = "none"
  /\ dRecordingId = Null
  /\ dPlaybackUrl = "none"
  /\ dMain = "idle"
  /\ walk = [s \in Streams |-> IdleWalk]
  /\ dsrvAcked = [s \in Streams |-> 0]
  /\ dsrvCount = 0

PromiseAll_ignoresRejection(w) ==
  IF \A s \in Streams : w[s].pc \in {"fulfilled", "rejected"} THEN "fulfilled"
  ELSE "pending"

(* Promise.all over the two walks: rejected with the first rejection,      *)
(* fulfilled once both are                                                 *)
PromiseAll(w) ==
  IF \E s \in Streams : w[s].pc = "rejected" THEN "rejected"
  ELSE IF \A s \in Streams : w[s].pc = "fulfilled" THEN "fulfilled"
  ELSE "pending"

(* the continuation of upload() after `await Promise.all([...])`, run when *)
(* the walks have become w; msg is the rejection reason                    *)
DualSettle(w, msg) ==
  IF dMain = "walking" /\ PromiseAll(w) = "fulfilled"
    THEN dMain' = "complete" /\ dState' = "completing" /\ UNCHANGED dError
  ELSE IF dMain = "walking" /\ PromiseAll(w) = "rejected"
    THEN dMain' = "failed" /\ dState' = "error" /\ dError' = msg
  ELSE UNCHANGED <<dMain, dState, dError>>

(* upload(screenBlob, webcamBlob, options) up to `await initDualUpload`;   *)
(* a new call is modelled once the walks of the previous one have ended    *)
dualUpload ==
  /\ UNCHANGED notDual
  /\ dMain \in {"idle", "done", "failed"}
  /\ \A s \in Streams : ~WalkActive(s)
  /\ dError' = "none"
  /\ dProgress' = NullProgress
  /\ dRecordingId' = Null
  /\ dPlaybackUrl' = "none"
  /\ dState' = "initializing"
  /\ dMain' = "init"
  /\ walk' = [s \in Streams |-> IdleWalk]
  /\ UNCHANGED <<dsrvAcked, dsrvCount>>

DualInitOk ==
  /\ UNCHANGED notDual
  /\ dMain = "init"
  /\ dsrvCount < MaxSessions
  /\ dsrvCount' = dsrvCount + 1
  /\ dsrvAcked' = [s \in Streams |-> 0]
  /\ dRecordingId' = dsrvCount + 1
  /\ dState' = "uploading"
  /\ dProgress' = [s \in Streams |-> 0]
  /\ dMain' = "walking"
  /\ walk' = [s \in Streams |-> [IdleWalk EXCEPT !.pc = "chunk"]]
  /\ UNCHANGED <<dError, dPlaybackUrl>>

DualInitFail ==
  /\ UNCHANGED notDual
  /\ dMain = "init"
  /\ dMain' = "failed"
  /\ dState' = "error"
  /\ dError' = "init"
  /\ UNCHANGED <<dProgress, dRecordingId, dPlaybackUrl, walk, dsrvAcked, dsrvCount>>

(* the write of stream s is answered 200 { uploadedBytes, done } *)
DualChunkOk_overwritesPair(s) ==
  /\ UNCHANGED notDual
  /\ walk[s].pc = "chunk"
  /\ LET start == RangeStart(walk[s].i, ChunkSize)
         end == RangeEnd(walk[s].i, ChunkSize, StreamSize(s))
     IN  \E uploadedBytes \in BackendAccept(dsrvAcked[s], start, end) :
           LET done == uploadedBytes >= StreamSize(s)
               w == IF done \/ walk[s].i + 1 >= StreamChunks(s)
                      THEN [walk EXCEPT ![s].pc = "fulfilled"]
                      ELSE [walk EXCEPT ![s].i = walk[s].i + 1, ![s].attempt = 0,
                                        ![s].waits = <<>>, ![s].lastError = "none"]
           IN  /\ dsrvAcked' = [dsrvAcked EXCEPT ![s] = uploadedBytes]
               /\ dProgress' = IF dProgress = NullProgress THEN NullProgress
                                ELSE [t \in Streams |->
                                       IF t = s THEN uploadedBytes ELSE 0]
               /\ walk' = w
               /\ DualSettle(w, dError)
  /\ UNCHANGED <<dRecordingId, dPlaybackUrl, dsrvCount>>

DualChunkOk(s) ==
  /\ UNCHANGED notDual
  /\ walk[s].pc = "chunk"
  /\ LET start == RangeStart(walk[s].i, ChunkSize)
         end == RangeEnd(walk[s].i, ChunkSize, StreamSize(s))
     IN  \E uploadedBytes \in BackendAccept(dsrvAcked[s], start, end) :
           LET done == uploadedBytes >= StreamSize(s)
               w == IF done \/ walk[s].i + 1 >= StreamChunks(s)
                      THEN [walk EXCEPT ![s].pc = "fulfilled"]
                      ELSE [walk EXCEPT ![s].i = walk[s].i + 1, ![s].attempt = 0,
                                        ![s].waits = <<>>, ![s].lastError = "none"]
           IN  /\ dsrvAcked' = [dsrvAcked EXCEPT ![s] = uploadedBytes]
               /\ dProgress' = IF dProgress = NullProgress THEN NullProgress
                                ELSE [dProgress EXCEPT ![s] = uploadedBytes]
               /\ walk' = w
               /\ DualSettle(w, dError)
  /\ UNCHANGED <<dRecordingId, dPlaybackUrl, dsrvCount>>

DualChunkFail(s) ==
  /\ UNCHANGED notDual
  /\ walk[s].pc = "chunk"
  /\ \E cause \in FailureCauses :
       LET w == IF IsLastAttempt(walk[s].attempt, DualMaxRetries)
                  THEN [walk EXCEPT ![s].pc = "rejected", ![s].lastError = cause]
                  ELSE [walk EXCEPT ![s].pc = "backoff", ![s].lastError = cause,
                                    ![s].waits = Append(walk[s].waits,
                                                        BackoffDelay(walk[s].attempt))]
       IN  /\ walk' = w
           /\ DualSettle(w, cause)
  /\ UNCHANGED <<dProgress, dRecordingId, dPlaybackUrl, dsrvAcked, dsrvCount>>

DualBackoffDone(s) ==
  /\ UNCHANGED notDual
  /\ walk[s].pc = "backoff"
  /\ walk' = [walk EXCEPT ![s].pc = "chunk", ![s].attempt = walk[s].attempt + 1]
  /\ UNCHANGED <<dState, dProgress, dError, dRecordingId, dPlaybackUrl, dMain,
                 dsrvAcked, dsrvCount>>

DualCompleteOk ==
  /\ UNCHANGED notDual
  /\ dMain = "complete"
  /\ \E url \in PlaybackUrls :
       dPlaybackUrl' = IF url # "none" THEN url ELSE dPlaybackUrl
  /\ dState' = "completed"
  /\ dMain' = "done"
  /\ UNCHANGED <<dProgress, dError, dRecordingId, walk, dsrvAcked, dsrvCount>>

DualCompleteFail ==
  /\ UNCHANGED notDual
  /\ dMain = "complete"
  /\ dMain' = "failed"
  /\ dState' = "error"
  /\ dError' = "complete"
  /\ UNCHANGED <<dProgress, dRecordingId, dPlaybackUrl, walk, dsrvAcked, dsrvCount>>

dualReset ==
  /\ UNCHANGED notDual
  /\ dState' = "idle"
  /\ dProgress' = NullProgress
  /\ dError' = "none"
  /\ dRecordingId' = Null
  /\ dPlaybackUrl' = "none"
  /\ UNCHANGED <<dMain, walk, dsrvAcked, dsrvCount>>

(* ---------------------------------------------------------------------- *)
(* UploadManager                                                           *)
(* ---------------------------------------------------------------------- *)
MgrMaxRetries == 3

(* UploadManager.retryDelays, in ms *)
retryDelays == <<1000, 2000, 4000>>

MRuns == {1, 2}

IdleMRun == [pc |-> "idle", kind |-> "none", id |-> Null, i |-> 0, attempt |-> 0,
             uploaded |-> FALSE, sigCur |-> FALSE, onError |-> 0, onComplete |-> 0,
             waits |-> <<>>]

MgrActive(r) == mrun[r].pc \notin {"idle", "returned", "threw"}
MgrNextSlot(r) == ~MgrActive(r) /\ \A q \in MRuns : q < r => MgrActive(q)

(* a callback counter, saturating at CallCap *)
Inc(n) == Min(n + 1, CallCap)

MgrNumChunks == Len(sliceBlobIntoChunks(BlobSize, ChunkSize))

(* endByte of chunk i: Math.min(startByte + chunk.size - 1, blob.size - 1) *)
MgrEndByte(i) ==
  LET chunk == sliceBlobIntoChunks(BlobSize, ChunkSize)[i + 1]
  IN  Min(i * ChunkSize + (chunk.end - chunk.start) - 1, BlobSize - 1)

MgrInit ==
  /\ mId = Null
  /\ mStatus = "absent"
  /\ mUploaded = 0
  /\ mError = "none"
  /\ mAborted = FALSE
  /\ mrun = [r \in MRuns |-> IdleMRun]

MgrLoop_ignoresAbort(rec, i, aborted) ==
  IF i < MgrNumChunks
    THEN [rec EXCEPT !.pc = "chunk", !.i = i, !.attempt = 0,
                     !.uploaded = FALSE, !.sigCur = TRUE, !.waits = <<>>]
    ELSE [rec EXCEPT !.pc = "completeEnd", !.i = i]

(* top of the for loop of uploadChunks at index i, up to the next await *)
MgrLoop(rec, i, aborted) ==
  IF i < MgrNumChunks
    THEN IF aborted
           THEN [rec EXCEPT !.pc = "returned", !.i = i]
           ELSE [rec EXCEPT !.pc = "chunk", !.i = i, !.attempt = 0,
                            !.uploaded = FALSE, !.sigCur = TRUE, !.waits = <<>>]
    ELSE [rec EXCEPT !.pc = "completeEnd", !.i = i]

(* the retry loop's catch block, after lastError was set: what the run     *)
(* does next when the failed attempt was number rec.attempt               *)
MgrAfterCatch(rec, aborted) ==
  IF aborted THEN [rec EXCEPT !.pc = "returned"]
  ELSE IF rec.attempt < MgrMaxRetries - 1
    THEN [rec EXCEPT !.pc = "backoff",
                     !.waits = Append(rec.waits, retryDelays[rec.attempt + 1])]
  ELSE IF rec.uploaded THEN MgrLoop(rec, rec.i + 1, aborted)
  ELSE [rec EXCEPT !.pc = "threw", !.onError = Inc(Inc(rec.onError))]

(* startUpload(blob, metadata, callbacks) up to the init-resumable fetch;  *)
(* the model tracks one entry of this.uploads                              *)
startUpload(r) ==
  /\ UNCHANGED notMgr
  /\ MgrNextSlot(r)
  /\ mId = Null
  /\ \A q \in MRuns : ~MgrActive(q)
  /\ mrun' = [mrun EXCEPT ![r] = [IdleMRun EXCEPT !.pc = "init", !.kind = "start"]]
  /\ UNCHANGED <<mId, mStatus, mUploaded, mError, mAborted, srvVars>>

MgrInitOk(r) ==
  /\ UNCHANGED notMgr
  /\ mrun[r].pc = "init"
  /\ srvCount < MaxSessions
  /\ srvCount' = srvCount + 1
  /\ srvAcked' = [srvAcked EXCEPT ![srvCount + 1] = 0]
  /\ mId' = srvCount + 1
  /\ mStatus' = "uploading"
  /\ mUploaded' = 0
  /\ mError' = "none"
  /\ mAborted' = FALSE
  /\ mrun' = [mrun EXCEPT ![r].pc = "status", ![r].id = srvCount + 1]

MgrInitFail(r) ==
  /\ UNCHANGED notMgr
  /\ mrun[r].pc = "init"
  /\ mrun' = [mrun EXCEPT ![r].pc = "threw"]
  /\ UNCHANGED <<mId, mStatus, mUploaded, mError, mAborted, srvVars>>

(* resumeUpload(recordingId, blob, callbacks): with an entry in the map    *)
(* the walk starts at once under a new AbortController; without one the    *)
(* status is fetched first                                                 *)
resumeUpload(r) ==
  /\ UNCHANGED notMgr
  /\ MgrNextSlot(r)
  /\ IF mId # Null
       THEN /\ mStatus' = "uploading"
            /\ mError' = "none"
            /\ mAborted' = FALSE
            /\ mrun' = [q \in MRuns |->
                          IF q = r
                            THEN [IdleMRun EXCEPT !.pc = "status", !.kind = "resume",
                                                  !.id = mId]
                            ELSE [mrun[q] EXCEPT !.sigCur = FALSE]]
            /\ UNCHANGED <<mId, mUploaded>>
       ELSE /\ \A q \in MRuns : ~MgrActive(q)
            /\ \E id \in 1..srvCount :
                 mrun' = [mrun EXCEPT ![r] = [IdleMRun EXCEPT !.pc = "rstatus",
                                                !.kind = "resume", !.id = id]]
            /\ UNCHANGED <<mId, mStatus, mUploaded, mError, mAborted>>
  /\ UNCHANGED srvVars

MgrRStatusOk(r) ==
  /\ UNCHANGED notMgr
  /\ mrun[r].pc = "rstatus"
  /\ mId' = mrun[r].id
  /\ mStatus' = "uploading"
  /\ mUploaded' = srvAcked[mrun[r].id]
  /\ mError' = "none"
  /\ mAborted' = FALSE
  /\ mrun' = [mrun EXCEPT ![r].pc = "status"]
  /\ UNCHANGED srvVars

MgrRStatusFail(r) ==
  /\ UNCHANGED notMgr
  /\ mrun[r].pc = "rstatus"
  /\ mrun' = [mrun EXCEPT ![r].pc = "threw"]
  /\ UNCHANGED <<mId, mStatus, mUploaded, mError, mAborted, srvVars>>

MgrStatusOk(r) ==
  /\ UNCHANGED notMgr
  /\ mrun[r].pc = "status"
  /\ mrun' = [mrun EXCEPT ![r] =
                MgrLoop(mrun[r], srvAcked[mrun[r].id] \div ChunkSize, mAborted)]
  /\ UNCHANGED <<mId, mStatus, mUploaded, mError, mAborted, srvVars>>

(* uploadChunks rejected before the loop: the .catch of the caller *)
MgrStatusFail(r) ==
  /\ UNCHANGED notMgr
  /\ mrun[r].pc = "status"
  /\ mStatus' = "error"
  /\ mError' = "status"
  /\ mrun' = [mrun EXCEPT ![r].pc = "threw", ![r].onError = Inc(mrun[r].onError)]
  /\ UNCHANGED <<mId, mUploaded, mAborted, srvVars>>

MgrChunkOk(r) ==
  /\ UNCHANGED notMgr
  /\ mrun[r].pc = "chunk"
  /\ LET id == mrun[r].id
         start == mrun[r].i * ChunkSize
         endByte == MgrEndByte(mrun[r].i)
     IN  \E uploadedBytes \in BackendAccept(srvAcked[id], start, endByte + 1) :
           LET done == uploadedBytes >= BlobSize
               local == IF uploadedBytes # 0 THEN uploadedBytes ELSE endByte + 1
               rec == [mrun[r] EXCEPT !.uploaded = TRUE]
           IN  /\ srvAcked' = [srvAcked EXCEPT ![id] = uploadedBytes]
               /\ mUploaded' = local
               /\ mrun' = [mrun EXCEPT ![r] =
                             IF done \/ local >= BlobSize
                               THEN [rec EXCEPT !.pc = "completeIn"]
                               ELSE MgrLoop(rec, rec.i + 1, mAborted)]
  /\ UNCHANGED <<mId, mStatus, mError, mAborted, srvCount>>

MgrChunkFail(r) ==
  /\ UNCHANGED notMgr
  /\ mrun[r].pc = "chunk"
  /\ LET rec == MgrAfterCatch(mrun[r], mAborted)
     IN  /\ mrun' = [mrun EXCEPT ![r] = rec]
         /\ IF rec.pc = "threw"
              THEN mStatus' = "error" /\ mError' = "chunk"
              ELSE UNCHANGED <<mStatus, mError>>
  /\ UNCHANGED <<mId, mUploaded, mAborted, srvVars>>

(* the backoff timer fired; a fetch on an aborted signal rejects at once   *)
(* and the catch block returns                                             *)
MgrBackoffDone(r) ==
  /\ UNCHANGED notMgr
  /\ mrun[r].pc = "backoff"
  /\ mrun' = [mrun EXCEPT ![r] =
                IF mAborted
                  THEN [mrun[r] EXCEPT !.pc = "returned",
                                       !.attempt = mrun[r].attempt + 1]
                  ELSE [mrun[r] EXCEPT !.pc = "chunk", !.sigCur = TRUE,
                                       !.attempt = mrun[r].attempt + 1]]
  /\ UNCHANGED <<mId, mStatus, mUploaded, mError, mAborted, srvVars>>

MgrCompleteOk(r) ==
  /\ UNCHANGED notMgr
  /\ mrun[r].pc \in {"completeIn", "completeEnd"}
  /\ mStatus' = "completed"
  /\ mUploaded' = BlobSize
  /\ mrun' = [mrun EXCEPT ![r].pc = "returned",
                          ![r].onComplete = Inc(mrun[r].onComplete)]
  /\ UNCHANGED <<mId, mError, mAborted, srvVars>>

(* completeUpload threw: from line 402 the error leaves uploadChunks and   *)
(* reaches the caller's .catch; from line 359 it is caught by the retry    *)
(* loop of the chunk                                                       *)
MgrCompleteFail(r) ==
  /\ UNCHANGED notMgr
  /\ mrun[r].pc \in {"completeIn", "completeEnd"}
  /\ mStatus' = "error"
  /\ mError' = "complete"
  /\ LET rec == [mrun[r] EXCEPT !.onError = Inc(mrun[r].onError)]
     IN  mrun' = [mrun EXCEPT ![r] =
                    IF mrun[r].pc = "completeEnd"
                      THEN [rec EXCEPT !.pc = "threw", !.onError = Inc(rec.onError)]
                      ELSE MgrAfterCatch(rec, mAborted)]
  /\ UNCHANGED <<mId, mUploaded, mAborted, srvVars>>

(* cancelUpload(recordingId): the fetch that carries the aborted signal    *)
(* rejects and its catch block returns                                     *)
cancelUpload ==
  /\ UNCHANGED notMgr
  /\ mId # Null
  /\ mAborted' = TRUE
  /\ mStatus' = "cancelled"
  /\ mrun' = [q \in MRuns |->
                IF mrun[q].pc = "chunk" /\ mrun[q].sigCur
                  THEN [mrun[q] EXCEPT !.pc = "returned"]
                  ELSE mrun[q]]
  /\ UNCHANGED <<mId, mUploaded, mError, srvVars>>

MgrNext ==
  \/ \E r \in MRuns :
       \/ startUpload(r) \/ resumeUpload(r)
       \/ MgrInitOk(r) \/ MgrInitFail(r)
       \/ MgrRStatusOk(r) \/ MgrRStatusFail(r)
       \/ MgrStatusOk(r) \/ MgrStatusFail(r)
       \/ MgrChunkOk(r) \/ MgrChunkFail(r) \/ MgrBackoffDone(r)
       \/ MgrCompleteOk(r) \/ MgrCompleteFail(r)
  \/ cancelUpload

(* ---------------------------------------------------------------------- *)
(* useSimpleUpload: initiate, one PUT of the whole blob, complete          *)
(* ---------------------------------------------------------------------- *)
(* position of the upload() call; xhr is the fate of its XMLHttpRequest,   *)
(* outcome the fate of the last backend or storage request it made         *)
IdleSRun == [pc |-> "idle", rid |-> Null, inits |-> 0, puts |-> 0, completes |-> 0,
             loaded |-> 0, xhr |-> "none", outcome |-> "none"]

SimpleInit ==
  /\ sState = "idle"
  /\ sProgress = NoProgress
  /\ sError = "none"
  /\ sRecordingId = Null
  /\ sPlaybackUrl = "none"
  /\ srun = IdleSRun
  /\ ssrvCount = 0

(* a call whose promise settled, or whose PUT promise can no longer settle *)
SimpleFree == srun.pc \in {"idle", "hung"}

simpleUpload ==
  /\ UNCHANGED notSimple
  /\ SimpleFree
  /\ ssrvCount < MaxSessions
  /\ sError' = "none"
  /\ sProgress' = NoProgress
  /\ sRecordingId' = Null
  /\ sPlaybackUrl' = "none"
  /\ srun' = [IdleSRun EXCEPT !.pc = "token"]
  /\ UNCHANGED <<sState, ssrvCount>>

(* the catch block of upload() *)
SimpleCatch ==
  /\ sError' = "failed"
  /\ sState' = "error"
  /\ srun' = [srun EXCEPT !.pc = "idle", !.outcome = "failed"]

SimpleTokenOk ==
  /\ UNCHANGED notSimple
  /\ srun.pc = "token"
  /\ sState' = "initializing"
  /\ srun' = [srun EXCEPT !.pc = "init"]
  /\ UNCHANGED <<sProgress, sError, sRecordingId, sPlaybackUrl, ssrvCount>>

SimpleTokenFail ==
  /\ UNCHANGED notSimple
  /\ srun.pc = "token"
  /\ SimpleCatch
  /\ UNCHANGED <<sProgress, sRecordingId, sPlaybackUrl, ssrvCount>>

(* initVideoUpload answered: the PUT of the whole blob is sent *)
SimpleInitOk ==
  /\ UNCHANGED notSimple
  /\ srun.pc = "init"
  /\ ssrvCount' = ssrvCount + 1
  /\ sRecordingId' = ssrvCount + 1
  /\ sState' = "uploading"
  /\ srun' = [srun EXCEPT !.pc = "put", !.rid = ssrvCount + 1, !.inits = @ + 1,
                          !.puts = @ + 1, !.xhr = "sent", !.outcome = "ok"]
  /\ UNCHANGED <<sProgress, sError, sPlaybackUrl>>

SimpleInitFail ==
  /\ UNCHANGED notSimple
  /\ srun.pc = "init"
  /\ SimpleCatch
  /\ UNCHANGED <<sProgress, sRecordingId, sPlaybackUrl, ssrvCount>>

(* a progress event of xhr.upload *)
SimpleProgress ==
  /\ UNCHANGED notSimple
  /\ srun.pc = "put"
  /\ \E loaded \in (srun.loaded + 1)..BlobSize :
       /\ sProgress' = [uploadedBytes |-> loaded, totalBytes |-> BlobSize,
                        percentage |-> Percent(loaded, BlobSize)]
       /\ srun' = [srun EXCEPT !.loaded = loaded]
  /\ UNCHANGED <<sState, sError, sRecordingId, sPlaybackUrl, ssrvCount>>

(* load with a 2xx status: uploadPromise resolves *)
SimplePutOk ==
  /\ UNCHANGED notSimple
  /\ srun.pc = "put"
  /\ sState' = "completing"
  /\ srun' = [srun EXCEPT !.pc = "complete", !.completes = @ + 1, !.xhr = "ok"]
  /\ UNCHANGED <<sProgress, sError, sRecordingId, sPlaybackUrl, ssrvCount>>

(* load with another status, error or abort: the listener calls            *)
(* options.onError, which the hook made throw, so reject(error) on the     *)
(* next line is not reached and uploadPromise stays pending                *)
SimplePutFail ==
  /\ UNCHANGED notSimple
  /\ srun.pc = "put"
  /\ srun' = [srun EXCEPT !.pc = "hung", !.xhr = "failed", !.outcome = "failed"]
  /\ UNCHANGED <<sState, sProgress, sError, sRecordingId, sPlaybackUrl, ssrvCount>>

SimpleCompleteOk ==
  /\ UNCHANGED notSimple
  /\ srun.pc = "complete"
  /\ \E url \in PlaybackUrls :
       sPlaybackUrl' = IF url # "none" THEN url ELSE sPlaybackUrl
  /\ sState' = "completed"
  /\ srun' = [srun EXCEPT !.pc = "idle", !.outcome = "ok"]
  /\ UNCHANGED <<sProgress, sError, sRecordingId, ssrvCount>>

SimpleCompleteFail ==
  /\ UNCHANGED notSimple
  /\ srun.pc = "complete"
  /\ SimpleCatch
  /\ UNCHANGED <<sProgress, sRecordingId, sPlaybackUrl, ssrvCount>>

SimpleResetState ==
  /\ sState' = "idle"
  /\ sProgress' = NoProgress
  /\ sError' = "none"
  /\ sRecordingId' = Null
  /\ sPlaybackUrl' = "none"

simpleReset ==
  /\ UNCHANGED notSimple
  /\ SimpleResetState
  /\ UNCHANGED <<srun, ssrvCount>>

SimpleNext ==
  \/ simpleUpload
  \/ SimpleTokenOk \/ SimpleTokenFail
  \/ SimpleInitOk \/ SimpleInitFail
  \/ SimpleProgress
  \/ SimplePutOk \/ SimplePutFail
  \/ SimpleCompleteOk \/ SimpleCompleteFail
  \/ simpleReset

(* ---------------------------------------------------------------------- *)
(* ScreenRecorder: the Start Recording button                              *)
(* ---------------------------------------------------------------------- *)
(* useResumable: a recorded blob is at hand (the size threshold is 0), and *)
(* then recordingId, uploadState and resetUpload are those of              *)
(* useResumableUpload; otherwise they are those of useSimpleUpload         *)
handleStartClick(useResumable) ==
  /\ UNCHANGED <<dualVars, mgrVars, fn, srvVars, run, srun, ssrvCount>>
  /\ stored' = Null
  /\ IF useResumable
       THEN /\ IF recordingId # Null \/ state # "idle"
                 THEN /\ state' = "idle"
                      /\ progress' = NoProgress
                      /\ error' = "none"
                      /\ recordingId' = Null
                      /\ playbackUrl' = "none"
                 ELSE UNCHANGED <<state, progress, error, recordingId, playbackUrl>>
            /\ UNCHANGED <<sState, sProgress, sError, sRecordingId, sPlaybackUrl>>
       ELSE /\ IF sRecordingId # Null \/ sState # "idle"
                 THEN SimpleResetState
                 ELSE UNCHANGED <<sState, sProgress, sError, sRecordingId, sPlaybackUrl>>
            /\ UNCHANGED <<state, progress, error, recordingId, playbackUrl>>

(* ---------------------------------------------------------------------- *)
(* Pure helpers: slicing, resume index, byte ranges                        *)
(* ---------------------------------------------------------------------- *)
(* Math.ceil(a / b) for b > 0 *)
Ceil(a, b) == (a + b - 1) \div b

(* chunkBlob of chunked-upload.ts: the ranges [startByte, endByte) of its  *)
(* ChunkData, built by index from Math.ceil(totalSize / chunkSize)         *)
chunkBlob(totalSize, chunkSize) ==
  [k \in 1..Ceil(totalSize, chunkSize) |->
     [start |-> (k - 1) * chunkSize,
      end |-> Min((k - 1) * chunkSize + chunkSize, totalSize)]]

ContentRange_exclusiveEnd(chunkIndex, chunkSize, totalSize) ==
  [first |-> chunkIndex * chunkSize,
   last |-> Min(chunkIndex * chunkSize + chunkSize, totalSize),
   total |-> totalSize]

(* Content-Range `bytes ${start}-${end - 1}/${totalSize}` of uploadChunk *)
ContentRange(chunkIndex, chunkSize, totalSize) ==
  [first |-> RangeStart(chunkIndex, chunkSize),
   last |-> RangeEnd(chunkIndex, chunkSize, totalSize) - 1,
   total |-> totalSize]

MgrContentRange_fullChunk(i, chunks, chunkSize, size) ==
  LET startByte == i * chunkSize
  IN  [first |-> startByte,
       last |-> startByte + chunkSize - 1,
       total |-> size]

(* Content-Range of UploadManager.uploadChunks for chunk i of `chunks` *)
MgrContentRange(i, chunks, chunkSize, size) ==
  LET chunk == chunks[i + 1]
      startByte == i * chunkSize
  IN  [first |-> startByte,
       last |-> Min(startByte + (chunk.end - chunk.start) - 1, size - 1),
       total |-> size]

(* Content-Range of uploadChunkToGCS for one ChunkData *)
GcsContentRange(chunk, totalSize) ==
  [first |-> chunk.start, last |-> chunk.end - 1, total |-> totalSize]

ResumeFrom_neverComplete(uploadedBytes, fileSize, chunkSize) ==
  [complete |-> FALSE,
   index |-> IF uploadedBytes = 0 THEN 0 ELSE uploadedBytes \div chunkSize]

(* what resume() does with a status reply: the "already complete" branch,  *)
(* or the index uploadChunks starts from                                   *)
ResumeFrom(uploadedBytes, fileSize, chunkSize) ==
  IF uploadedBytes >= fileSize
    THEN [complete |-> TRUE, index |-> Null]
    ELSE [complete |-> FALSE,
          index |-> calculateStartingChunkIndex(uploadedBytes, chunkSize)]

(* arguments: payload size, chunk size, acknowledged bytes *)
SmallInputs ==
  {t \in (0..MaxPayload) \X (1..MaxChunkSize) \X (0..MaxPayload) : t[3] <= t[1]}

ScenarioInputs ==
  {<<20000000, 8000000, a>> : a \in {0, 4000000, 8000000, 16000000, 20000000}}

FnIdle(size, chunkSize, uploadedBytes) ==
  [size |-> size, chunkSize |-> chunkSize, uploadedBytes |-> uploadedBytes,
   applied |-> {}, chunks |-> <<>>, gcsChunks |-> <<>>, ranges |-> <<>>,
   mgrRanges |-> <<>>, gcsRanges |-> <<>>,
   startIndex |-> Null, resumeFrom |-> [complete |-> FALSE, index |-> Null]]

FnInit == fn = FnIdle(BlobSize, ChunkSize, 0)

FnInputs ==
  \E t \in SmallInputs \cup ScenarioInputs : fn = FnIdle(t[1], t[2], t[3])

ApplySlice ==
  /\ UNCHANGED notFn
  /\ "slice" \notin fn.applied
  /\ fn' = [fn EXCEPT !.applied = fn.applied \cup {"slice"},
                      !.chunks = sliceBlobIntoChunks(fn.size, fn.chunkSize)]

ApplyChunkBlob ==
  /\ UNCHANGED notFn
  /\ "chunkBlob" \notin fn.applied
  /\ fn' = [fn EXCEPT !.applied = fn.applied \cup {"chunkBlob"},
                      !.gcsChunks = chunkBlob(fn.size, fn.chunkSize)]

ApplyResumeCalc ==
  /\ UNCHANGED notFn
  /\ "resume" \notin fn.applied
  /\ fn' = [fn EXCEPT !.applied = fn.applied \cup {"resume"},
                      !.startIndex = calculateStartingChunkIndex(fn.uploadedBytes,
                                                                  fn.chunkSize),
                      !.resumeFrom = ResumeFrom(fn.uploadedBytes, fn.size,
                                                fn.chunkSize)]

(* the Content-Range of every chunk of a walk over the whole payload, for  *)
(* each of the three transports                                            *)
ApplyRanges ==
  /\ UNCHANGED notFn
  /\ "ranges" \notin fn.applied
  /\ LET chunks == sliceBlobIntoChunks(fn.size, fn.chunkSize)
         gcs == chunkBlob(fn.size, fn.chunkSize)
     IN  fn' = [fn EXCEPT
                  !.applied = fn.applied \cup {"ranges"},
                  !.ranges = [k \in 1..Len(chunks) |->
                                ContentRange(k - 1, fn.chunkSize, fn.size)],
                  !.mgrRanges = [k \in 1..Len(chunks) |->
                                   MgrContentRange(k - 1, chunks, fn.chunkSize, fn.size)],
                  !.gcsRanges = [k \in 1..Len(gcs) |-> GcsContentRange(gcs[k], fn.size)]]

FnNext == ApplySlice \/ ApplyChunkBlob \/ ApplyResumeCalc \/ ApplyRanges

vars == <<hookVars, srvVars, dualVars, mgrVars, fn, simpleVars>>

Init == SrvInit /\ HookInit /\ DualInit /\ MgrInit /\ FnInit /\ SimpleInit

Step(r) ==
  \/ TokenOk(r) \/ TokenFail(r)
  \/ InitOk(r) \/ InitFail(r)
  \/ StatusOk(r) \/ StatusFail(r)
  \/ ChunkOk(r) \/ ChunkFail(r) \/ BackoffDone(r)
  \/ CompleteOk(r) \/ CompleteFail(r)

(* calls of the hook one after the other: a call is made when the previous *)
(* one has settled; reset and a page refresh may come at any time          *)
HookNext ==
  \/ Quiescent /\ upload(1)
  \/ Quiescent /\ resume(1)
  \/ \E r \in Runs : Step(r)
  \/ reset
  \/ Remount

Next == HookNext

Spec == Init /\ [][Next]_vars

(* every request of a call in flight is answered, and every backoff timer  *)
(* fires                                                                   *)
SpecLive == Init /\ [][Next]_vars /\ \A r \in Runs : WF_vars(Step(r))

(* the dual hook on its own *)
DualNext ==
  \/ dualUpload
  \/ DualInitOk \/ DualInitFail
  \/ \E s \in Streams : DualChunkOk(s) \/ DualChunkFail(s) \/ DualBackoffDone(s)
  \/ DualCompleteOk \/ DualCompleteFail
  \/ dualReset

NextDual == DualNext

SpecDual == Init /\ [][NextDual]_vars

(* useSimpleUpload on its own *)
NextSimple == SimpleNext

SpecSimple == Init /\ [][NextSimple]_vars

(* ScreenRecorder with the two upload hooks it mounts *)
NextRecorder ==
  \/ HookNext
  \/ SimpleNext
  \/ \E useResumable \in BOOLEAN : handleStartClick(useResumable)

SpecRecorder == Init /\ [][NextRecorder]_vars

(* the UploadManager on its own *)
NextMgr == MgrNext

SpecMgr == Init /\ [][NextMgr]_vars

(* the pure helpers applied to arguments drawn from the input sets *)
InitFn == SrvInit /\ HookInit /\ DualInit /\ MgrInit /\ FnInputs /\ SimpleInit

NextFn == FnNext

SpecFn == InitFn /\ [][NextFn]_vars

(* ====================================================================== *)
(* Properties of the resumable Upload Session                              *)
(* ====================================================================== *)

(* a chunk write of run r is in flight / the completion call of run r is   *)
(* in flight                                                               *)
WriteInFlight(r) == run[r].pc = "chunk"
CompletionInFlight(r) == run[r].pc \in {"complete", "completeEarly"}

(* this step is the failure of the last attempt the retry budget allows *)
ChunkExhausted(r) == run[r].pc = "chunk" /\ run'[r].pc = "failed"

(* C1: when a chunk write has failed on every attempt of the retry budget, *)
(* the lifecycle state becomes error and the persisted identity is left as *)
(* it was.                                                                 *)
C1_ExhaustedChunkKeepsIdentity ==
  [][\A r \in Runs :
       ChunkExhausted(r) => state' = "error" /\ stored' = stored]_vars

C1_Witness ==
  \E r \in Runs :
    /\ run[r].pc = "failed"
    /\ error = "Chunk upload failed: status"
    /\ run[r].writes = NumericToken
    /\ state = "error"
    /\ stored # Null
    /\ stored = run[r].rid

(* C2: in every state where the lifecycle state is completed the persisted *)
(* identity has been cleared.                                              *)
C2_CompletedHasNoIdentity == state = "completed" => stored = Null

(* C3: a resume whose status reply reports uploadedBytes >= fileSize goes  *)
(* to completing, issues the completion call, and has sent no chunk write. *)
C3_FinishedResumeGoesToCompleting ==
  [][\A r \in Runs :
       (/\ run[r].pc = "status"
        /\ run'[r].pc # "failed"
        /\ run'[r].pc # "idle"
        /\ srvAcked[run[r].rid] >= BlobSize)
       => /\ state' = "completing"
          /\ run'[r].pc \in {"complete", "completeEarly"}
          /\ run'[r].writes = 0]_vars

(* C4: completed is entered only from completing, in the step in which the *)
(* backend confirms the completion call; the session is never completed    *)
(* while a completion call is outstanding.                                 *)
C4_CompletedOnlyAfterConfirmation ==
  /\ [](state = "completed" => \A r \in Runs : ~CompletionInFlight(r))
  /\ [][(state' = "completed" /\ state # "completed")
        => /\ state = "completing"
           /\ \E r \in Runs : CompletionInFlight(r) /\ run'[r].pc = "done"]_vars

(* C5: the completion call is in flight only when the backend holds the    *)
(* whole payload.                                                          *)
C5_CompletionOnlyWhenAllAcknowledged ==
  \A r \in Runs : CompletionInFlight(r) => srvAcked[run[r].rid] >= BlobSize

(* C6: while a chunk write of an upload() is in flight, is being retried,  *)
(* or has happened and the completion call is out, the identity returned   *)
(* by initiation is in the persisted store, unless reset() cleared it (the *)
(* hook then holds no identity either).                                    *)
C6_IdentityPersistedBeforeChunks ==
  \A r \in Runs :
    (/\ run[r].kind = "upload"
     /\ run[r].pc \in {"chunk", "backoff", "complete"}
     /\ recordingId # Null)
    => stored = run[r].rid /\ stored # Null

C6_Witness ==
  \E r \in Runs :
    /\ run[r].kind = "upload"
    /\ run[r].pc = "chunk"
    /\ run[r].i = 0
    /\ run[r].writes = 1
    /\ stored = run[r].rid

(* C7: within one run chunk writes go out for consecutive ascending        *)
(* indices: the first is 0 for upload() and floor(uploadedBytes/chunkSize) *)
(* of the status reply for resume(); the index moves only by one, and only *)
(* in the step in which the write of the current chunk was acknowledged.   *)
C7_ChunksInAscendingOrder ==
  [][\A r \in Runs :
       /\ (run[r].pc = "init" /\ run'[r].pc = "chunk") => run'[r].i = 0
       /\ (run[r].pc = "status" /\ run'[r].pc = "chunk")
            => run'[r].i = srvAcked[run[r].rid] \div ChunkSize
       /\ (run[r].pc \in {"chunk", "backoff"} /\ run'[r].pc \in {"chunk", "backoff"})
            => \/ run'[r].i = run[r].i
               \/ /\ run[r].pc = "chunk"
                  /\ run'[r].i = run[r].i + 1
                  /\ progress'.uploadedBytes = srvAcked'[run[r].rid]
                  /\ srvAcked'[run[r].rid] \in
                       BackendAccept(srvAcked[run[r].rid],
                                     run[r].i * ChunkSize,
                                     Min(run[r].i * ChunkSize + ChunkSize, BlobSize))]_vars

C7_Witness ==
  \E r \in Runs :
    /\ run[r].pc = "chunk"
    /\ run[r].i = 1
    /\ run[r].writes >= 2
    /\ srvAcked[run[r].rid] = ChunkSize

(* ====================================================================== *)
(* Properties of the Dual Upload Session                                   *)
(* ====================================================================== *)

(* C9: complete-dual is in flight only when both walks have ended and the  *)
(* backend holds every byte of both streams.                               *)
C9_DualCompletionAfterBothDone ==
  dMain = "complete"
    => \A s \in Streams : walk[s].pc = "fulfilled" /\ dsrvAcked[s] >= StreamSize(s)

(* C10: once a stream's chunk write has failed for good, the call is in    *)
(* error: no completion call is out or was answered, the state is not      *)
(* completed, and the step of the failure itself leaves the state error.   *)
C10_DualFailureIsFatal ==
  /\ []((\E s \in Streams : walk[s].pc = "rejected")
         => dMain = "failed" /\ dState # "completed" /\ dState # "completing")
  /\ [][\A s \in Streams :
          (walk[s].pc = "chunk" /\ walk'[s].pc = "rejected" /\ dMain = "walking")
          => dState' = "error" /\ dMain' = "failed"]_vars

C10_Witness ==
  /\ walk["screen"].pc = "rejected"
  /\ walk["screen"].i = 1
  /\ walk["webcam"].pc = "fulfilled"
  /\ dsrvAcked["webcam"] = WebcamSize
  /\ dState = "error"

(* ====================================================================== *)
(* Properties across the three transports                                  *)
(* ====================================================================== *)

(* C8: for one session identity and stream at most one chunk write is in   *)
(* flight at any time (the two walks of a dual session are one per stream  *)
(* in every state of the model).                                           *)
C8_OneWriteInFlightPerStream ==
  /\ \A r1, r2 \in Runs :
       (r1 # r2 /\ WriteInFlight(r1) /\ WriteInFlight(r2))
         => run[r1].rid # run[r2].rid
  /\ \A r1, r2 \in MRuns :
       (r1 # r2 /\ mrun[r1].pc = "chunk" /\ mrun[r2].pc = "chunk")
         => mrun[r1].id # mrun[r2].id

(* C11: for one chunk at most MgrMaxRetries writes go out; no further      *)
(* write of the chunk goes out once one of its attempts has succeeded; and *)
(* when the last attempt fails with none succeeded the walk ends with the  *)
(* entry in error.                                                         *)
C11_RetryStopsAtFirstSuccess ==
  /\ [](\A r \in MRuns :
          mrun[r].pc \in {"chunk", "backoff"} => mrun[r].attempt < MgrMaxRetries)
  /\ [][\A r \in MRuns :
          (mrun[r].pc = "backoff" /\ mrun'[r].pc = "chunk") => ~mrun[r].uploaded]_vars
  /\ [][\A r \in MRuns :
          (/\ mrun[r].pc = "chunk"
           /\ mrun[r].attempt = MgrMaxRetries - 1
           /\ ~mrun[r].uploaded
           /\ mrun'[r].pc \notin {"chunk", "completeIn", "completeEnd", "returned"})
          => mrun'[r].pc = "threw" /\ mStatus' = "error"]_vars

(* C12: with the default budget, when the failure of a chunk is surfaced   *)
(* the waits that separated its attempts were 1s, 2s and 4s, in that       *)
(* order (dual streams: uploadScreenChunk / uploadWebcamChunk).            *)
C12_BackoffOneTwoFour ==
  \A s \in Streams :
    walk[s].pc = "rejected" => walk[s].waits = <<1000, 2000, 4000>>

(* C13: a resume() sends no chunk write before the status reply, and the   *)
(* first write it sends, in the step that handles the reply, is for chunk  *)
(* floor(uploadedBytes / chunkSize) of that reply: the chunk that holds    *)
(* the first byte the backend has not acknowledged.                        *)
C13_ResumeStartsAtFirstUnacknowledged ==
  /\ [](\A r \in Runs :
          (run[r].kind = "resume" /\ run[r].pc \in {"token", "status"})
            => run[r].writes = 0)
  /\ [][\A r \in Runs :
          (run[r].kind = "resume" /\ run[r].pc = "status" /\ run'[r].pc = "chunk")
          => LET acked == srvAcked[run[r].rid]
             IN  /\ run'[r].writes = 1
                 /\ run'[r].i = acked \div ChunkSize
                 /\ RangeStart(run'[r].i, ChunkSize) <= acked
                 /\ acked < RangeEnd(run'[r].i, ChunkSize, BlobSize)]_vars

C13_Witness ==
  \E r \in Runs :
    /\ run[r].kind = "resume"
    /\ run[r].pc = "chunk"
    /\ run[r].writes = 1
    /\ run[r].i = 1
    /\ srvAcked[run[r].rid] = ChunkSize

(* what holds of a freshly constructed hook *)
FreshlyConstructed ==
  /\ state \in {"paused", "idle"}
  /\ state = "paused" <=> stored # Null
  /\ progress = NoProgress
  /\ recordingId = stored

(* C14: a freshly constructed hook (first mount, or mounted again after a  *)
(* page refresh) is paused exactly when sessionStorage holds an identity,  *)
(* idle otherwise, with progress null and the in-memory identity equal to  *)
(* the stored one.                                                         *)
C14_PausedIffPersisted ==
  /\ FreshlyConstructed
  /\ [][Remount => FreshlyConstructed']_vars

C14_Witness ==
  /\ state = "paused"
  /\ stored = 2
  /\ recordingId = 2
  /\ progress = NoProgress
  /\ srvAcked[2] > 0
  /\ \A r \in Runs : run[r].pc = "idle"

(* C15: reset() called in error, paused or completed leaves the hook idle  *)
(* with sessionStorage cleared and progress, error, recordingId and        *)
(* playbackUrl all null.                                                   *)
C15_ResetClearsEverything ==
  [][(reset /\ state \in {"error", "paused", "completed"})
     => /\ state' = "idle"
        /\ stored' = Null
        /\ progress' = NoProgress
        /\ error' = "none"
        /\ recordingId' = Null
        /\ playbackUrl' = "none"]_vars

C15_Witness ==
  /\ run[1].pc = "failed"
  /\ run[1].rid # Null
  /\ state = "idle"
  /\ error = "none"
  /\ stored = Null
  /\ recordingId = Null
  /\ progress = NoProgress
  /\ playbackUrl = "none"

(* C16: when the completion call fails the hook enters error and leaves    *)
(* sessionStorage as it was; for an upload() the identity that initiation  *)
(* returned is still there (unless a reset() in between had removed it,    *)
(* the hook then holding no identity either).                              *)
C16_CompletionFailureKeepsIdentity ==
  [][\A r \in Runs :
       (CompletionInFlight(r) /\ run'[r].pc = "failed")
       => /\ state' = "error"
          /\ error' = "complete"
          /\ stored' = stored
          /\ (run[r].kind = "upload" /\ recordingId # Null)
                => stored' = run[r].rid]_vars

C16_Witness ==
  \E r \in Runs :
    /\ run[r].pc = "failed"
    /\ run[r].kind = "upload"
    /\ error = "complete"
    /\ state = "error"
    /\ stored = run[r].rid
    /\ recordingId = stored
    /\ srvAcked[run[r].rid] = BlobSize

(* C17: when initResumableUpload fails, the call has sent one initiation   *)
(* request and no chunk write, the hook enters error with the message of   *)
(* the failure, and the call does nothing further: no chunk write and no   *)
(* completion call.                                                        *)
C17_InitFailureIsFinal ==
  /\ [][\A r \in Runs :
          (run[r].pc = "init" /\ run'[r].pc # "init" /\ srvCount' = srvCount
             /\ run'[r].kind = "upload")
          => /\ run'[r].pc = "failed"
             /\ run'[r].inits = 1
             /\ run'[r].writes = 0
             /\ state' = "error"
             /\ error' = "init"]_vars
  /\ [][\A r \in Runs :
          run[r].pc = "failed" => run'[r].pc \in {"failed", "token", "idle"}]_vars

C17_Witness ==
  \E r \in Runs :
    /\ run[r].kind = "upload"
    /\ run[r].pc = "failed"
    /\ run[r].inits = 1
    /\ run[r].writes = 0
    /\ run[r].rid = Null
    /\ state = "error"
    /\ error = "init"

(* C18: a chunk write that was rejected for lack of a valid credential is  *)
(* not queued for another attempt, and once surfaced it was attempted once *)
(* (dual streams).                                                         *)
C18_CredentialFailureNotRetried ==
  \A s \in Streams :
    /\ walk[s].pc = "backoff" => walk[s].lastError # "401"
    /\ (walk[s].pc = "rejected" /\ walk[s].lastError = "401") => walk[s].waits = <<>>

(* this step sends a chunk write of manager run r *)
MgrWriteIssued(r) ==
  /\ mrun'[r].pc = "chunk"
  /\ mrun[r].pc # "chunk" \/ mrun'[r].i # mrun[r].i

(* C19: cancelUpload raises the signal, ends the write that carries it and *)
(* leaves uploadedBytes as it was; while the signal is raised no run sends *)
(* a chunk write, neither another attempt of the current chunk nor a       *)
(* chunk of higher index.                                                  *)
C19_AbortStopsTheWalk ==
  /\ [][cancelUpload
        => /\ mAborted'
           /\ mUploaded' = mUploaded
           /\ \A r \in MRuns :
                (mrun[r].pc = "chunk" /\ mrun[r].sigCur) => mrun'[r].pc = "returned"]_vars
  /\ [][mAborted => \A r \in MRuns : ~MgrWriteIssued(r)]_vars

C19_Witness ==
  /\ mAborted
  /\ mStatus = "cancelled"
  /\ mrun[1].pc = "returned"
  /\ mrun[1].i = 1
  /\ mrun[1].onComplete = 0
  /\ mUploaded = ChunkSize
  /\ srvAcked[mId] = ChunkSize

C21_ProgressNeverDecreases ==
  [][(mStatus = "uploading" /\ mStatus' = "uploading" /\ mId' = mId)
     => mUploaded' >= mUploaded]_vars

(* ====================================================================== *)
(* Properties of the pure helpers                                          *)
(* ====================================================================== *)

RECURSIVE TotalLength(_)
TotalLength(chunks) ==
  IF chunks = <<>> THEN 0
  ELSE (Head(chunks).end - Head(chunks).start) + TotalLength(Tail(chunks))

(* ceil(S/C) ranges [start, end), the first at 0, each starting where the  *)
(* previous one ended, none running backwards, lengths adding up to S      *)
GoodSlicing(chunks, S, C) ==
  /\ Len(chunks) = Ceil(S, C)
  /\ Len(chunks) > 0 => chunks[1].start = 0
  /\ \A k \in 1..Len(chunks) : chunks[k].start <= chunks[k].end
  /\ \A k \in 1..(Len(chunks) - 1) :
       /\ chunks[k + 1].start = chunks[k].end
       /\ chunks[k].start < chunks[k + 1].start
  /\ TotalLength(chunks) = S

(* C22: for every payload size S and chunk size C > 0 the slicers          *)
(* (sliceBlobIntoChunks, and chunkBlob of the GCS transport) yield         *)
(* ceil(S/C) chunks in ascending order, contiguous from 0, not             *)
(* overlapping, with lengths that sum to S.                                *)
C22_SlicingCoversPayload ==
  /\ "slice" \in fn.applied => GoodSlicing(fn.chunks, fn.size, fn.chunkSize)
  /\ "chunkBlob" \in fn.applied => GoodSlicing(fn.gcsChunks, fn.size, fn.chunkSize)

C22_Witness ==
  /\ {"slice", "chunkBlob"} \subseteq fn.applied
  /\ fn.size = 5
  /\ fn.chunkSize = 2
  /\ Len(fn.chunks) = 3
  /\ fn.chunks[3] = [start |-> 4, end |-> 5]
  /\ fn.gcsChunks = fn.chunks

ChunkLength(chunk) == chunk.end - chunk.start

(* C23: for S > 0 every chunk of the slicer but the last is C bytes long,  *)
(* the last is S - (n-1)*C bytes long, between 1 and C, and no chunk is    *)
(* empty; 20,000,000 bytes in chunks of 8,000,000 give 8,000,000,          *)
(* 8,000,000 and 4,000,000.                                                *)
C23_ChunkLengths ==
  ("slice" \in fn.applied /\ fn.size > 0)
  => LET n == Len(fn.chunks)
     IN  /\ n >= 1
         /\ \A k \in 1..(n - 1) : ChunkLength(fn.chunks[k]) = fn.chunkSize
         /\ ChunkLength(fn.chunks[n]) = fn.size - (n - 1) * fn.chunkSize
         /\ ChunkLength(fn.chunks[n]) \in 1..fn.chunkSize
         /\ \A k \in 1..n : ChunkLength(fn.chunks[k]) > 0
         /\ (fn.size = 20000000 /\ fn.chunkSize = 8000000)
              => [k \in 1..n |-> ChunkLength(fn.chunks[k])]
                   = <<8000000, 8000000, 4000000>>

C23_Witness ==
  /\ "slice" \in fn.applied
  /\ fn.size = 20000000
  /\ fn.chunkSize = 8000000
  /\ Len(fn.chunks) = 3
  /\ ChunkLength(fn.chunks[3]) = 4000000

(* C24: the resume calculator returns 0 for 0 acknowledged bytes and       *)
(* floor(acknowledgedBytes / chunkSize) otherwise, so its result k has     *)
(* k*chunkSize <= acknowledgedBytes < (k+1)*chunkSize; 8,000,000 with      *)
(* chunks of 8,000,000 gives 1 and 4,000,000 gives 0.                      *)
C24_ResumeIndexBrackets ==
  "resume" \in fn.applied
  => LET k == fn.startIndex
         a == fn.uploadedBytes
         c == fn.chunkSize
     IN  /\ a = 0 => k = 0
         /\ k = a \div c
         /\ k * c <= a
         /\ a < (k + 1) * c
         /\ (c = 8000000 /\ a = 8000000) => k = 1
         /\ (c = 8000000 /\ a = 4000000) => k = 0

C24_Witness ==
  /\ "resume" \in fn.applied
  /\ fn.chunkSize = 8000000
  /\ fn.uploadedBytes = 8000000
  /\ fn.startIndex = 1

(* C25: for every acknowledged count in [0, S] the resume computation      *)
(* either signals "already complete" (exactly when the count equals S) or  *)
(* yields a chunk index in [0, ceil(S/chunkSize) - 1].                     *)
C25_ResumeIsTotal ==
  "resume" \in fn.applied
  => /\ fn.uploadedBytes = fn.size => fn.resumeFrom.complete
     /\ fn.uploadedBytes < fn.size
          => /\ ~fn.resumeFrom.complete
             /\ fn.resumeFrom.index \in 0..(Ceil(fn.size, fn.chunkSize) - 1)

(* every byte acknowledged and the payload a whole number of chunks: the   *)
(* bare index would be the chunk count, and resume() takes the             *)
(* already-complete branch                                                 *)
C25_Witness ==
  /\ "resume" \in fn.applied
  /\ fn.size > 0
  /\ fn.uploadedBytes = fn.size
  /\ fn.size % fn.chunkSize = 0
  /\ fn.startIndex = Ceil(fn.size, fn.chunkSize)
  /\ fn.resumeFrom.complete

InclusiveRanges(ranges, S, C) ==
  /\ \A k \in 1..Len(ranges) :
        /\ ranges[k].first = (k - 1) * C
        /\ ranges[k].last = Min((k - 1) * C + C, S) - 1
        /\ ranges[k].total = S
  /\ \A k \in 1..(Len(ranges) - 1) : ranges[k + 1].first = ranges[k].last + 1
  /\ Len(ranges) = Ceil(S, C)
  /\ Len(ranges) > 0 => ranges[Len(ranges)].last = S - 1

(* C26: the byte range sent for chunk i is 0-based with an inclusive end:  *)
(* first byte i*C, last byte min(i*C + C, S) - 1, total S; consecutive     *)
(* ranges are adjacent and the last one ends at S - 1, in each of the      *)
(* three transports.                                                       *)
C26_InclusiveByteRanges ==
  "ranges" \in fn.applied
  => /\ InclusiveRanges(fn.ranges, fn.size, fn.chunkSize)
     /\ InclusiveRanges(fn.mgrRanges, fn.size, fn.chunkSize)
     /\ InclusiveRanges(fn.gcsRanges, fn.size, fn.chunkSize)

C26_Witness ==
  /\ "ranges" \in fn.applied
  /\ fn.size = 5
  /\ fn.chunkSize = 2
  /\ fn.ranges = <<[first |-> 0, last |-> 1, total |-> 5],
                   [first |-> 2, last |-> 3, total |-> 5],
                   [first |-> 4, last |-> 4, total |-> 5]>>
  /\ fn.mgrRanges = fn.ranges
  /\ fn.gcsRanges = fn.ranges

(* ---------------------------------------------------------------------- *)
(* Properties of the hooks inside ScreenRecorder                           *)
(* ---------------------------------------------------------------------- *)
(* C27: sessionStorage["activeRecordingId"] changes only in a transition   *)
(* of the upload session itself: it is set to the identity the session     *)
(* holds, or cleared when the session completes or is reset; no other      *)
(* step changes it and leaves the session holding an identity that is no   *)
(* longer persisted.                                                       *)
C27_IdentityChangedOnlyBySession ==
  [][stored' # stored
       => \/ stored' # Null /\ stored' = recordingId'
          \/ stored' = Null /\ state' = "completed"
          \/ stored' = Null /\ state' = "idle" /\ recordingId' = Null]_vars

(* C28: a playback URL is held only in state completed.                    *)
C28_PlaybackOnlyWhenCompleted == playbackUrl # "none" => state = "completed"

(* C30: the single-PUT session initiates, sends the blob in one PUT, then  *)
(* completes; it never touches sessionStorage; and a step in which one of  *)
(* its requests fails leaves it in state error.                            *)
C30_SinglePutThenError ==
  [][/\ stored' = stored
     /\ srun'.puts <= 1 /\ srun'.puts <= srun'.inits /\ srun'.completes <= srun'.puts
     /\ (srun'.outcome = "failed" /\ srun # srun') => sState' = "error"]_vars

(* ---------------------------------------------------------------------- *)
(* Progress of the dual session                                            *)
(* ---------------------------------------------------------------------- *)
(* the step is an acknowledged chunk write of stream s *)
AckOn(s) ==
  /\ walk[s].pc = "chunk"
  /\ \/ walk'[s].pc = "fulfilled"
     \/ walk'[s].pc = "chunk" /\ walk'[s].i = walk[s].i + 1

(* C29: the progress of the dual session has one component per stream; an *)
(* acknowledged chunk of one stream puts the backend's count into that     *)
(* stream's component and leaves the other stream's component as it was,   *)
(* however the two streams' acknowledgments interleave.                    *)
C29_AckReplacesOwnComponentOnly ==
  [][\A s \in Streams :
       AckOn(s)
       => /\ \A t \in Streams \ {s} : dProgress'[t] = dProgress[t]
          /\ dProgress # NullProgress => dProgress'[s] = dsrvAcked'[s]]_vars

(* both streams acknowledged, one of them still in its walk *)
C29_Witness ==
  /\ dState = "uploading"
  /\ dProgress # NullProgress
  /\ dProgress["screen"] > 0
  /\ dProgress["screen"] < StreamSize("screen")
  /\ dProgress["webcam"] > 0
  /\ walk["screen"].pc = "chunk"

(* ---------------------------------------------------------------------- *)
(* Completion called again                                                 *)
(* ---------------------------------------------------------------------- *)
(* the step is the success of a completion call for the session the hook   *)
(* holds; the hook still shows the playback reference an earlier           *)
(* completion of that session returned, and no reset came between the call *)
(* and its answer                                                          *)
SecondCompletion(r) ==
  /\ run[r].pc \in {"complete", "completeEarly"}
  /\ run'[r].pc = "done"
  /\ recordingId = run[r].rid
  /\ state \in {"completing", "completed"}
  /\ playbackUrl # "none"

(* C31: when the completion of a session succeeds a second time, the       *)
(* session is left as one completion leaves it: state                      *)
(* completed, the same playback reference, the persisted identity cleared. *)
C31_SecondCompletionSameOutcome ==
  [][\A r \in Runs :
       SecondCompletion(r)
       => /\ state' = "completed"
          /\ playbackUrl' = playbackUrl
          /\ stored' = Null]_vars

(* ---------------------------------------------------------------------- *)
(* reset() while a call is in flight                                       *)
(* ---------------------------------------------------------------------- *)
(* a call that got past getAccessToken set the state to initializing; the  *)
(* state is idle again although the call has not settled: reset() came     *)
(* while it was in flight                                                  *)
ResetWhileInFlight ==
  /\ state = "idle"
  /\ \E r \in Runs : Active(r) /\ run[r].pc # "token"

(* C32: after a reset() that came while an upload() or resume() was in     *)
(* flight, the continuation of that call changes neither the lifecycle     *)
(* state, nor the progress, nor the persisted identity.                    *)
C32_ResetIsFinal ==
  [][ResetWhileInFlight
       => /\ state' = "idle"
          /\ progress' = progress
          /\ stored' = stored]_vars

(* ---------------------------------------------------------------------- *)
(* The dual session after one stream failed                                *)
(* ---------------------------------------------------------------------- *)
(* the step sends a chunk write of stream s: the next chunk of its walk,   *)
(* or the same chunk again after a backoff                                 *)
DualWriteIssued(s) ==
  /\ walk'[s].pc = "chunk"
  /\ walk[s].pc # "chunk" \/ walk'[s].i # walk[s].i

(* C33: while the dual session is in error because a stream's walk was     *)
(* rejected, no chunk write is sent for either stream and the progress     *)
(* does not change.                                                        *)
C33_NoWritesAfterDualError ==
  [][(/\ dState = "error"
      /\ dState' = "error"
      /\ \E s \in Streams : walk[s].pc = "rejected")
     => /\ dProgress' = dProgress
        /\ \A s \in Streams : ~DualWriteIssued(s)]_vars

(* ---------------------------------------------------------------------- *)
(* UploadManager: cancellation and the error callback                      *)
(* ---------------------------------------------------------------------- *)
(* C34: once cancelUpload has set the status of an upload to cancelled it  *)
(* stays cancelled, and neither onComplete nor onError is invoked, until   *)
(* resumeUpload is called for it.                                          *)
C34_CancelledStaysCancelled ==
  [][(/\ mStatus = "cancelled"
      /\ mId' = mId
      /\ ~(\E r \in MRuns : resumeUpload(r)))
     => /\ mStatus' = "cancelled"
        /\ \A r \in MRuns : /\ mrun'[r].onError = mrun[r].onError
                             /\ mrun'[r].onComplete = mrun[r].onComplete]_vars

(* C35: a run of uploadChunks that fails (a chunk out of attempts, or a    *)
(* failed completion call) has invoked onError exactly once when it ends.  *)
C35_OnErrorExactlyOnce ==
  [][\A r \in MRuns :
       (mrun[r].pc \in {"chunk", "completeIn", "completeEnd"} /\ mrun'[r].pc = "threw")
       => mrun'[r].onError = 1]_vars

(* ---------------------------------------------------------------------- *)
(* The hook's identity in memory and in sessionStorage                     *)
(* ---------------------------------------------------------------------- *)
(* C36: whenever the session is in error or paused, the recordingId it     *)
(* holds in memory and the one in sessionStorage agree: both absent, or    *)
(* the same identifier.                                                    *)
C36_IdentityAgreesWhenResumable ==
  state \in {"error", "paused"} => recordingId = stored

(* ---------------------------------------------------------------------- *)
(* The retry budget the hook hands to uploadChunk                          *)
(* ---------------------------------------------------------------------- *)
(* the step ends call r with the error of a chunk *)
FailedOnChunk(r) ==
  /\ run[r].pc # "failed"
  /\ run'[r].pc = "failed"
  /\ error' \in {"Chunk upload failed", "Chunk upload failed: status"}

(* C37: a call fails on account of a chunk only after a write of a chunk   *)
(* was sent: the retry budget uploadChunk received is a positive number.   *)
C37_ChunkErrorOnlyAfterAWrite ==
  [][\A r \in Runs :
       FailedOnChunk(r)
       => /\ run'[r].writes >= 1
          /\ run'[r].maxRetries # NaN
          /\ run'[r].maxRetries > 0]_vars

(* ---------------------------------------------------------------------- *)
(* Termination of upload() and resume()                                    *)
(* ---------------------------------------------------------------------- *)
Transient == {"initializing", "uploading", "completing"}

(* useDualUpload with every request answered: the initiation and the       *)
(* completion, and the pending write or wait of each stream                *)
DualAnswer ==
  \/ DualInitOk \/ DualInitFail
  \/ DualCompleteOk \/ DualCompleteFail

DualWalkStep(s) == DualChunkOk(s) \/ DualChunkFail(s) \/ DualBackoffDone(s)

SpecDualLive ==
  /\ Init /\ [][NextDual]_vars
  /\ WF_vars(DualAnswer)
  /\ \A s \in Streams : WF_vars(DualWalkStep(s))

(* the same for useDualUpload.upload: the call settles with the session in *)
(* completed or error                                                      *)
DualCallsSettle ==
  /\ (dMain \in {"init", "walking", "complete"})
       ~> (dMain \in {"done", "failed"} /\ dState \in {"completed", "error"})
  /\ (dState \in Transient) ~> (dState \notin Transient)

(* the call r has returned: fulfilled or rejected *)
Settled(r) == run[r].pc \in {"done", "failed"}

(* the page was left while the call r was pending *)
Abandoned(r) == run[r].pc = "idle"

RangesCoverBodies(ranges, chunks) ==
  /\ Len(ranges) = Len(chunks)
  /\ \A k \in 1..Len(chunks) :
       /\ ranges[k].first = chunks[k].start
       /\ ranges[k].last - ranges[k].first + 1 = ChunkLength(chunks[k])

(* C39: for every chunk write the range of the Content-Range header,       *)
(* computed from chunk index, chunk size and total size, covers the bytes  *)
(* of the body, the slicer's chunk with that index: same first byte, same  *)
(* length, for every payload size and chunk size > 0, in uploadChunk and   *)
(* in UploadManager.uploadChunks.                                          *)
C39_RangeCoversBody ==
  {"slice", "ranges"} \subseteq fn.applied
  => /\ RangesCoverBodies(fn.ranges, fn.chunks)
     /\ RangesCoverBodies(fn.mgrRanges, fn.chunks)

(* a payload that is no whole number of chunks: the last body is shorter   *)
(* than the chunk size and so is its range                                 *)
C39_Witness ==
  /\ {"slice", "ranges"} \subseteq fn.applied
  /\ fn.size = 5
  /\ fn.chunkSize = 3
  /\ fn.chunks[2] = [start |-> 3, end |-> 5]
  /\ fn.ranges[2] = [first |-> 3, last |-> 4, total |-> 5]
  /\ fn.mgrRanges[2] = fn.ranges[2]

====
